---------------------------- MODULE Spec2Model ----------------------------
(***************************************************************************)
(* Model of the VM-vs-Docker result analysis (src/src/analyze_results.py)  *)
(* and of the value normalizer of src/src/utils.py.                        *)
(*                                                                         *)
(* Text is a sequence of one-character strings.  Numbers read from text    *)
(* are integers; a quotient (an improvement percentage, a ratio) is kept   *)
(* exactly, as a fraction <<num, den>> in lowest terms with den > 0, so    *)
(* the float rounding of the Python code is not modelled.                  *)
(***************************************************************************)
EXTENDS Integers, Sequences, FiniteSets, TLC

VARIABLES
    pc,                 \* position of the run
    value,              \* argument `value` of the normalizer
    default,            \* argument `default` of the normalizer
    parsed,             \* outcome of the normalizer call
    vm_value,           \* argument of calculate_improvement
    docker_value,       \* argument of calculate_improvement
    improvement,        \* outcome of the calculate_improvement call
    fs,                 \* the result directories: file name -> content
    perf_data,          \* load_performance_data's result
    stress_data,        \* load_stress_data's result
    report              \* generate_report's list `report`

vars == <<pc, value, default, parsed, vm_value, docker_value, improvement,
          fs, perf_data, stress_data, report>>

(***************************************************************************)
(* Bounds of the model.                                                    *)
(***************************************************************************)
MaxLen == 3             \* longest text handed to the normalizer
MaxVal == 6             \* largest magnitude handed to calculate_improvement
MaxMetric == 2          \* largest metric value handed to generate_report

(***************************************************************************)
(* Text.                                                                   *)
(***************************************************************************)
DigitChars == {"0", "1", "2"}
UnitChars == {"B", "K", "M", "G", "%", "m", "s"}
Alphabet == DigitChars \cup UnitChars \cup {" "}

Str(n) == UNION {[1..k -> Alphabet] : k \in 0..n}

DigitVal(c) == CASE c = "0" -> 0 [] c = "1" -> 1 [] c = "2" -> 2

RECURSIVE DropLeft(_)
DropLeft(s) == IF s # <<>> /\ Head(s) = " " THEN DropLeft(Tail(s)) ELSE s

RECURSIVE DropRight(_)
DropRight(s) ==
    IF s # <<>> /\ s[Len(s)] = " " THEN DropRight(SubSeq(s, 1, Len(s) - 1)) ELSE s

\* str.strip()
Strip(s) == DropRight(DropLeft(s))

\* str.replace(old, ''): every non-overlapping occurrence, left to right
RECURSIVE Replace(_, _)
Replace(s, old) ==
    IF Len(s) < Len(old) THEN s
    ELSE IF SubSeq(s, 1, Len(old)) = old
         THEN Replace(SubSeq(s, Len(old) + 1, Len(s)), old)
         ELSE <<Head(s)>> \o Replace(Tail(s), old)

\* the substring test `old in s`
RECURSIVE Contains(_, _)
Contains(s, old) ==
    IF Len(s) < Len(old) THEN FALSE
    ELSE SubSeq(s, 1, Len(old)) = old \/ Contains(Tail(s), old)

RECURSIVE DigitsVal(_)
DigitsVal(s) ==
    IF s = <<>> THEN 0 ELSE 10 * DigitsVal(SubSeq(s, 1, Len(s) - 1)) + DigitVal(s[Len(s)])

IsNumber(s) == s # <<>> /\ \A i \in 1..Len(s) : s[i] \in DigitChars

\* float(text): over Alphabet the texts float() accepts are the non-empty
\* digit strings, with blanks around them; every other text raises ValueError.
PyFloat(s) ==
    LET t == Strip(s) IN
    IF IsNumber(t) THEN [exc |-> "none", val |-> DigitsVal(t)]
    ELSE [exc |-> "ValueError", val |-> 0]

(***************************************************************************)
(* The value normalizer.                                                   *)
(***************************************************************************)
AllExceptions == {"ValueError", "TypeError", "AttributeError", "OverflowError"}

\* the bare `except:` of parse_number
ParseNumberHandlers == AllExceptions

\* `except (ValueError, TypeError, AttributeError)` of safe_float_parse
SafeFloatParseHandlers == {"ValueError", "TypeError", "AttributeError"}

ParseNumberUnits == << <<"M", "B">>, <<"G", "B">>, <<"K", "B">>, <<"B">> >>

SafeFloatParseUnits ==
    << <<"M", "B">>, <<"G", "B">>, <<"K", "B">>, <<"B">>, <<"%">>, <<"m", "s">>, <<"s">> >>

RECURSIVE StripUnits(_, _)
StripUnits(s, units) ==
    IF units = <<>> THEN s ELSE StripUnits(Replace(s, Head(units)), Tail(units))

\* try: float(stripped) / except handlers: return default
TryFloat(s, dflt, handlers) ==
    LET r == PyFloat(s) IN
    IF r.exc = "none" THEN r
    ELSE IF r.exc \in handlers THEN [exc |-> "none", val |-> dflt]
    ELSE [exc |-> r.exc, val |-> dflt]

WeakHandlers(s, dflt) == TryFloat(StripUnits(Strip(s), ParseNumberUnits), dflt, {"TypeError"})

parse_number_outcome(s, dflt) ==
    TryFloat(StripUnits(Strip(s), ParseNumberUnits), dflt, ParseNumberHandlers)

safe_float_parse_outcome(s, dflt) ==
    TryFloat(StripUnits(Strip(s), SafeFloatParseUnits), dflt, SafeFloatParseHandlers)

parse_number(s, dflt) == parse_number_outcome(s, dflt).val

NoCall == [fn |-> "none", exc |-> "none", val |-> 0]
Defaults == {0, -1}

InitNormalize ==
    /\ pc = "normalize"
    /\ value \in Str(MaxLen) /\ default \in Defaults /\ parsed = NoCall
    /\ vm_value = 0 /\ docker_value = 0
    /\ improvement = [called |-> FALSE, higher_is_better |-> FALSE, val |-> <<0, 1>>]
    /\ fs = <<>> /\ perf_data = <<>> /\ stress_data = <<>> /\ report = <<>>

ParseNumber ==
    /\ pc = "normalize"
    /\ parsed' = [fn |-> "parse_number"] @@ parse_number_outcome(value, default)
    /\ pc' = "normalized"
    /\ UNCHANGED <<value, default, vm_value, docker_value, improvement,
                   fs, perf_data, stress_data, report>>

SafeFloatParse ==
    /\ pc = "normalize"
    /\ parsed' = [fn |-> "safe_float_parse"] @@ safe_float_parse_outcome(value, default)
    /\ pc' = "normalized"
    /\ UNCHANGED <<value, default, vm_value, docker_value, improvement,
                   fs, perf_data, stress_data, report>>

NextNormalize == ParseNumber \/ SafeFloatParse

SpecNormalize == InitNormalize /\ [][NextNormalize]_vars


(***************************************************************************)
(* Claims about the value normalizer (SpecNormalize).                      *)
(***************************************************************************)
UnitsOf(fn) == IF fn = "parse_number" THEN ParseNumberUnits ELSE SafeFloatParseUnits

\* the text the call hands to float()
Residue == StripUnits(Strip(value), UnitsOf(parsed.fn))

\* C6: neither normalizer raises, and a text that is not a number once its
\* units are stripped (the empty text included) yields exactly `default`.
C6_NeverRaisesReturnsDefault ==
    pc = "normalized" =>
        /\ parsed.exc = "none"
        /\ ~IsNumber(Strip(Residue)) => parsed.val = default

C6_Witness ==
    /\ pc = "normalized" /\ parsed.fn = "parse_number"
    /\ value = <<"1", "m", "s">> /\ default = -1 /\ parsed.val = -1

RecognizedSuffixes ==
    { <<"B">>, <<"K", "B">>, <<"M", "B">>, <<"G", "B">>, <<"%">>, <<"m", "s">>, <<"s">> }

NumberTexts == {d \in Str(MaxLen) : IsNumber(d)}

\* C7: a decimal number followed by one recognized unit suffix (B, KB, MB,
\* GB, %, ms, s) is normalized to the number itself by parse_number and by
\* safe_float_parse alike.
C7_SuffixStripped ==
    pc = "normalized" =>
        \A d \in NumberTexts : \A u \in RecognizedSuffixes :
            value = d \o u => parsed.exc = "none" /\ parsed.val = DigitsVal(d)

\* what does hold: safe_float_parse strips every recognized suffix, and
\* parse_number strips the byte units only
C7_SafeFloatParseStrips ==
    pc = "normalized" =>
        \A d \in NumberTexts : \A u \in RecognizedSuffixes :
            /\ value = d \o u
            /\ parsed.fn = "safe_float_parse" \/ u[Len(u)] = "B"
            => parsed.exc = "none" /\ parsed.val = DigitsVal(d)


(***************************************************************************)
(* Exact fractions.                                                        *)
(***************************************************************************)
Abs(x) == IF x < 0 THEN 0 - x ELSE x

RECURSIVE Gcd(_, _)
Gcd(a, b) == IF b = 0 THEN a ELSE Gcd(b, a % b)

\* what a division by zero leaves in place of a quotient: Python raises
\* ZeroDivisionError there
DivisionByZero == <<0, 0>>

\* n / d in lowest terms with a positive denominator
Frac(n, d) ==
    IF d = 0 THEN DivisionByZero
    ELSE LET g == Gcd(Abs(n), Abs(d))
             sgn == IF d < 0 THEN 0 - 1 ELSE 1
         IN <<(sgn * n) \div g, (sgn * d) \div g>>

Zero == <<0, 1>>
Num(q) == q[1]
Den(q) == q[2]
FracAbs(q) == <<Abs(q[1]), q[2]>>
FracNeg(q) == <<0 - q[1], q[2]>>

(***************************************************************************)
(* calculate_improvement                                                   *)
(***************************************************************************)
NoCandidateGuard(vm, docker, higher_is_better) ==
    IF vm = 0 THEN Zero
    ELSE IF higher_is_better THEN Frac((docker - vm) * 100, vm)
    ELSE Frac((vm - docker) * 100, vm)

SwappedPolarity(vm, docker, higher_is_better) ==
    IF vm = 0 \/ docker = 0 THEN Zero
    ELSE IF higher_is_better THEN Frac((vm - docker) * 100, vm)
    ELSE Frac((docker - vm) * 100, vm)

NoBaselineGuard(vm, docker, higher_is_better) ==
    IF docker = 0 THEN Zero
    ELSE IF higher_is_better THEN Frac((docker - vm) * 100, vm)
    ELSE Frac((vm - docker) * 100, vm)

calculate_improvement(vm, docker, higher_is_better) ==
    IF vm = 0 \/ docker = 0 THEN Zero
    ELSE IF higher_is_better THEN Frac((docker - vm) * 100, vm)
    ELSE Frac((vm - docker) * 100, vm)

Values == (0 - MaxVal)..MaxVal

InitCalc ==
    /\ pc = "calculate"
    /\ vm_value \in Values /\ docker_value \in Values
    /\ improvement = [called |-> FALSE, higher_is_better |-> FALSE, val |-> Zero]
    /\ value = <<>> /\ default = 0 /\ parsed = NoCall
    /\ fs = <<>> /\ perf_data = <<>> /\ stress_data = <<>> /\ report = <<>>

CalculateImprovement ==
    /\ pc = "calculate"
    /\ \E higher_is_better \in BOOLEAN :
         improvement' = [called |-> TRUE, higher_is_better |-> higher_is_better,
                         val |-> calculate_improvement(vm_value, docker_value,
                                                       higher_is_better)]
    /\ pc' = "calculated"
    /\ UNCHANGED <<value, default, parsed, vm_value, docker_value,
                   fs, perf_data, stress_data, report>>

NextCalc == CalculateImprovement

SpecCalc == InitCalc /\ [][NextCalc]_vars

\* C1: calculate_improvement returns exactly 0 whenever vm_value is 0 or
\* docker_value is 0, whatever the other argument and the polarity.
C1_ZeroOnDegenerate ==
    pc = "calculated" /\ (vm_value = 0 \/ docker_value = 0) => improvement.val = Zero

C1_Witness ==
    /\ pc = "calculated" /\ vm_value = 3 /\ docker_value = 0
    /\ improvement.higher_is_better /\ improvement.val = Zero

\* C2: for non-zero baseline and candidate the result is
\* (candidate - baseline) / baseline * 100 when higher is better and
\* (baseline - candidate) / baseline * 100 when lower is better, so the two
\* polarities give results that are negations of each other.
C2_SignedPercentage ==
    pc = "calculated" /\ vm_value # 0 /\ docker_value # 0 =>
        LET q == improvement.val
            diff == IF improvement.higher_is_better
                    THEN docker_value - vm_value ELSE vm_value - docker_value
        IN /\ Den(q) > 0
           /\ Num(q) * vm_value = diff * 100 * Den(q)
           /\ q = FracNeg(calculate_improvement(vm_value, docker_value,
                                                ~improvement.higher_is_better))

\* baseline 100, candidate 120 in units of 20: +20 with higher-is-better
C2_Witness ==
    /\ pc = "calculated" /\ vm_value = 5 /\ docker_value = 6
    /\ improvement.higher_is_better /\ improvement.val = <<20, 1>>


(***************************************************************************)
(* The result directories and load_performance_data.                       *)
(***************************************************************************)
Missing == <<"<missing>">>          \* no such file
Unreadable == <<"<unreadable>">>    \* open() or read() raises

VmFiles == {"used_memory_mb.txt", "vm_internal_memory_mb.txt",
            "configured_memory_mb.txt", "disk_actual_bytes.txt", "disk_size.txt",
            "startup_time.txt", "configured_cpu.txt", "vm_ip.txt"}
DockerFiles == {"startup_time.txt", "memory_used_mb.txt", "total_disk_bytes.txt",
                "cpu_percent.txt"}

\* str.upper() on the characters of the model
UpperChar(c) ==
    CASE c = "g" -> "G" [] c = "m" -> "M" [] c = "b" -> "B" [] c = "k" -> "K"
      [] c = "s" -> "S" [] OTHER -> c

Upper(s) == [i \in 1..Len(s) |-> UpperChar(s[i])]

read_file_content(file, dflt) ==
    IF file = Missing \/ file = Unreadable THEN dflt
    ELSE LET content == Strip(file) IN IF content # <<>> THEN content ELSE dflt

ConfiguredFirst(files) ==
    LET configured == parse_number(read_file_content(files["configured_memory_mb.txt"], <<"0">>), 0)
        internal == parse_number(read_file_content(files["vm_internal_memory_mb.txt"], <<"0">>), 0)
        used == parse_number(read_file_content(files["used_memory_mb.txt"], <<"0">>), 0)
    IN IF configured # 0 THEN configured ELSE IF internal # 0 THEN internal ELSE used

\* lines 66-70: used_memory_mb.txt, then vm_internal_memory_mb.txt, then
\* configured_memory_mb.txt
vm_used_mem(files) ==
    LET used == parse_number(read_file_content(files["used_memory_mb.txt"], <<"0">>), 0)
        internal == parse_number(read_file_content(files["vm_internal_memory_mb.txt"], <<"0">>), 0)
        configured == parse_number(read_file_content(files["configured_memory_mb.txt"], <<"0">>), 0)
    IN IF used # 0 THEN used ELSE IF internal # 0 THEN internal ELSE configured

\* lines 73-82: disk_actual_bytes.txt, then disk_size.txt with its unit
vm_disk_bytes(files) ==
    LET actual == parse_number(read_file_content(files["disk_actual_bytes.txt"], <<"0">>), 0)
        disk_size_str == read_file_content(files["disk_size.txt"], <<"0">>)
    IN IF actual # 0 THEN actual
       ELSE IF Contains(Upper(disk_size_str), <<"G">>)
            THEN parse_number(disk_size_str, 0) * 1024 * 1024 * 1024
       ELSE IF Contains(Upper(disk_size_str), <<"M">>)
            THEN parse_number(disk_size_str, 0) * 1024 * 1024
       ELSE parse_number(disk_size_str, 0)

load_performance_data(dirs) ==
    [vm |->
        IF dirs.vm_dir
        THEN [startup_time |-> parse_number(read_file_content(dirs.vm["startup_time.txt"], <<"0">>), 0),
              memory_mb |-> vm_used_mem(dirs.vm),
              disk_bytes |-> vm_disk_bytes(dirs.vm),
              cpu_cores |-> parse_number(read_file_content(dirs.vm["configured_cpu.txt"], <<"0">>), 0),
              ip |-> read_file_content(dirs.vm["vm_ip.txt"], <<"unknown">>)]
        ELSE <<>>,
     docker |->
        IF dirs.docker_dir
        THEN [startup_time |-> parse_number(read_file_content(dirs.docker["startup_time.txt"], <<"0">>), 0),
              memory_mb |-> parse_number(read_file_content(dirs.docker["memory_used_mb.txt"], <<"0">>), 0),
              disk_bytes |-> parse_number(read_file_content(dirs.docker["total_disk_bytes.txt"], <<"0">>), 0),
              cpu_percent |-> parse_number(read_file_content(dirs.docker["cpu_percent.txt"], <<"0">>), 0)]
        ELSE <<>>]

\* file contents the runs are started with
MemoryTexts == {Missing, Unreadable, <<" ">>, <<"0">>, <<"1", "M", "B">>, <<"2">>}
DiskActualTexts == {Missing, <<"0">>, <<"2">>}
GigaUnitTexts == { <<"G">>, <<"g">>, <<"G", "B">>, <<"g", "b">> }
SmallUnitTexts == { <<>>, <<"M">>, <<"m">>, <<"M", "B">>, <<"m", "b">>, <<"K">> }
\* a gigabyte count above 1 does not fit the 32-bit integers of the checker
DiskSizeTexts ==
    {Missing}
    \cup {d \o u : d \in { <<"1">> }, u \in GigaUnitTexts}
    \cup {d \o u : d \in { <<"1">>, <<"2">>, <<"1", "0">> }, u \in SmallUnitTexts}
OtherTexts == {Missing, <<"1">>, <<"2", "%">>}

MemoryFiles == {"used_memory_mb.txt", "vm_internal_memory_mb.txt", "configured_memory_mb.txt"}
DiskFiles == {"disk_actual_bytes.txt", "disk_size.txt"}

NoVmFiles == [f \in VmFiles |-> Missing]
NoDockerFiles == [f \in DockerFiles |-> Missing]

\* the memory files vary
MemoryDirs ==
    { [vm_dir |-> TRUE, docker_dir |-> FALSE, docker |-> NoDockerFiles,
       vm |-> [f \in VmFiles |-> IF f \in MemoryFiles THEN m[f] ELSE Missing]]
      : m \in [MemoryFiles -> MemoryTexts] }

\* the disk files vary
DiskDirs ==
    { [vm_dir |-> TRUE, docker_dir |-> FALSE, docker |-> NoDockerFiles,
       vm |-> [f \in VmFiles |->
                 IF f = "disk_actual_bytes.txt" THEN a
                 ELSE IF f = "disk_size.txt" THEN z ELSE Missing]]
      : a \in DiskActualTexts, z \in DiskSizeTexts }

\* the directories come and go, the other files vary
OtherDirs ==
    { [vm_dir |-> v, docker_dir |-> d,
       vm |-> IF v THEN [f \in VmFiles |-> IF f = "startup_time.txt" THEN t ELSE Missing]
              ELSE NoVmFiles,
       docker |-> IF d THEN o ELSE NoDockerFiles]
      : v \in BOOLEAN, d \in BOOLEAN, t \in OtherTexts, o \in [DockerFiles -> OtherTexts] }

ResultDirs == MemoryDirs \cup DiskDirs \cup OtherDirs

InitLoad ==
    /\ pc = "load"
    /\ fs \in ResultDirs
    /\ perf_data = <<>> /\ stress_data = <<>> /\ report = <<>>
    /\ value = <<>> /\ default = 0 /\ parsed = NoCall
    /\ vm_value = 0 /\ docker_value = 0
    /\ improvement = [called |-> FALSE, higher_is_better |-> FALSE, val |-> Zero]

LoadPerformanceData ==
    /\ pc = "load"
    /\ perf_data' = load_performance_data(fs)
    /\ pc' = "loaded"
    /\ UNCHANGED <<value, default, parsed, vm_value, docker_value, improvement,
                   fs, stress_data, report>>

NextLoad == LoadPerformanceData

SpecLoad == InitLoad /\ [][NextLoad]_vars


(***************************************************************************)
(* Claims about load_performance_data (SpecLoad).                          *)
(***************************************************************************)
MemoryOrder == <<"used_memory_mb.txt", "vm_internal_memory_mb.txt",
                 "configured_memory_mb.txt">>

\* the normalized value of one candidate file; an absent or unreadable file
\* counts as zero
Candidate(file) ==
    IF file = Missing \/ file = Unreadable THEN 0
    ELSE parse_number(read_file_content(file, <<"0">>), 0)

Least(S) == CHOOSE i \in S : \A j \in S : i <= j

\* C4: the VM memory value is the first non-zero normalized candidate in
\* the order used, internal, configured (missing or unreadable files count
\* as zero), and it is 0 exactly when all three candidates are zero.
C4_FirstNonZeroMemory ==
    pc = "loaded" /\ fs.vm_dir =>
        LET c == [i \in 1..3 |-> Candidate(fs.vm[MemoryOrder[i]])]
            nz == {i \in 1..3 : c[i] # 0}
            mem == perf_data.vm.memory_mb
        IN /\ nz # {} => mem = c[Least(nz)]
           /\ mem = 0 <=> nz = {}

C4_Witness ==
    /\ pc = "loaded" /\ fs.vm_dir
    /\ fs.vm["used_memory_mb.txt"] = <<"0">>
    /\ fs.vm["vm_internal_memory_mb.txt"] = Unreadable
    /\ fs.vm["configured_memory_mb.txt"] = <<"2">>
    /\ perf_data.vm.memory_mb = 2

DiskNumberTexts == { <<"1">>, <<"2">>, <<"1", "0">> }

\* C5: when disk_actual_bytes.txt resolves to 0, a disk_size.txt of a
\* number followed by G or g resolves to number * 1024^3, of a number
\* followed by M or m to number * 1024^2, and a plain number to itself.
C5_DiskSizeUnits ==
    /\ pc = "loaded" /\ fs.vm_dir
    /\ Candidate(fs.vm["disk_actual_bytes.txt"]) = 0
    => \A d \in DiskNumberTexts :
         LET z == fs.vm["disk_size.txt"]
             disk == perf_data.vm.disk_bytes
         IN /\ z \in {d \o <<"G">>, d \o <<"g">>} => disk = DigitsVal(d) * 1024 * 1024 * 1024
            /\ z \in {d \o <<"M">>, d \o <<"m">>} => disk = DigitsVal(d) * 1024 * 1024
            /\ z = d => disk = DigitsVal(d)

\* what the code does: the unit is converted only when it is spelled GB or
\* MB in upper case, the spelling parse_number strips; a bare or lower-case
\* unit letter makes parse_number fail and the size resolve to 0
C5_DiskSizeAsCoded ==
    /\ pc = "loaded" /\ fs.vm_dir
    /\ Candidate(fs.vm["disk_actual_bytes.txt"]) = 0
    => \A d \in DiskNumberTexts :
         LET z == fs.vm["disk_size.txt"]
             disk == perf_data.vm.disk_bytes
         IN /\ z = d \o <<"G", "B">> => disk = DigitsVal(d) * 1024 * 1024 * 1024
            /\ z = d \o <<"M", "B">> => disk = DigitsVal(d) * 1024 * 1024
            /\ z = d => disk = DigitsVal(d)
            /\ z \in {d \o u : u \in { <<"G">>, <<"g">>, <<"M">>, <<"m">>,
                                       <<"g", "b">>, <<"m", "b">> }} => disk = 0


(***************************************************************************)
(* generate_report.  The report is the list of fragments appended to       *)
(* `report`, without the fixed prose: a heading, a table row (its          *)
(* difference cell), the analysis sentence of a subsection, a finding, a   *)
(* line of the elasticity section.  `text` names the phrasing chosen and   *)
(* `val` is the number formatted into it.                                  *)
(***************************************************************************)
Heading(level, key) == [kind |-> "heading", key |-> key, text |-> level, val |-> Zero]
Row(key, text, val) == [kind |-> "row", key |-> key, text |-> text, val |-> val]
Analysis(key, text, val) == [kind |-> "analysis", key |-> key, text |-> text, val |-> val]
Finding(key, val) == [kind |-> "finding", key |-> key, text |-> "", val |-> val]
Line(key, text, val) == [kind |-> "line", key |-> key, text |-> text, val |-> val]

\* dict.get(key, dflt)
Get(d, key, dflt) == IF key \in DOMAIN d THEN d[key] ELSE dflt

\* the truth value of a dict: non-empty
NonEmpty(d) == DOMAIN d # {}

\* lines 186-204, 206-224, 226-244: one lower-is-better subsection
MetricSection(key, vm, docker, imp, better, worse) ==
    << Heading("###", key),
       IF Num(imp) > 0 THEN Row(key, better, imp) ELSE Row(key, worse, FracAbs(imp)),
       IF docker < vm /\ vm > 0
       THEN Analysis(key, "DockerShare", Frac(docker * 100, vm))
       ELSE Analysis(key, "VMOverhead", Zero) >>

\* lines 248-278: the body of the throughput subsection
ThroughputRows(stress) ==
         LET vm_qps == Get(stress.vm, "qps", 0)
             docker_qps == Get(stress.docker, "qps", 0)
             qps_improvement == calculate_improvement(vm_qps, docker_qps, TRUE)
             vm_rt == Get(stress.vm, "avg_response_time", 0)
             docker_rt == Get(stress.docker, "avg_response_time", 0)
         IN << Heading("###", "throughput"),
               IF Num(qps_improvement) > 0
               THEN Row("qps", "DockerHigher", qps_improvement)
               ELSE Row("qps", "VMHigher", FracAbs(qps_improvement)),
               IF docker_rt < vm_rt /\ vm_rt > 0
               THEN Row("avg_response_time", "DockerFaster",
                        Frac((vm_rt - docker_rt) * 100, vm_rt))
               ELSE IF docker_rt > vm_rt /\ docker_rt > 0
               THEN Row("avg_response_time", "VMFaster",
                        Frac((docker_rt - vm_rt) * 100, docker_rt))
               ELSE Row("avg_response_time", "Insufficient", Zero),
               IF docker_qps > vm_qps
               THEN Analysis("throughput", "DockerBetter", Zero)
               ELSE Analysis("throughput", "Close", Zero) >>

ThroughputNeedsBoth(stress) ==
    IF NonEmpty(stress.vm) /\ NonEmpty(stress.docker) THEN ThroughputRows(stress) ELSE <<>>

\* line 247: the throughput subsection, when either side has stress data
ThroughputSection(stress) ==
    IF NonEmpty(stress.vm) \/ NonEmpty(stress.docker) THEN ThroughputRows(stress) ELSE <<>>

FracLess(a, b) == a[1] * b[2] < b[1] * a[2]

RECURSIVE InsertByMagnitude(_, _)
InsertByMagnitude(f, sorted) ==
    IF sorted = <<>> THEN <<f>>
    ELSE IF FracLess(Head(sorted).val, f.val) THEN <<f>> \o sorted
    ELSE <<Head(sorted)>> \o InsertByMagnitude(f, Tail(sorted))

RECURSIVE SortByMagnitude(_)
SortByMagnitude(fs_) ==
    IF fs_ = <<>> THEN <<>>
    ELSE InsertByMagnitude(Head(fs_), SortByMagnitude(Tail(fs_)))

\* lines 319-334: the data-derived part of the list `findings`
DataFindings(perf, stress) ==
    LET vm_startup == Get(perf.vm, "startup_time", 0)
        docker_startup == Get(perf.docker, "startup_time", 0)
        vm_memory == Get(perf.vm, "memory_mb", 0)
        docker_memory == Get(perf.docker, "memory_mb", 0)
        vm_disk == Get(perf.vm, "disk_bytes", 0)
        docker_disk == Get(perf.docker, "disk_bytes", 0)
    IN (IF docker_startup < vm_startup
        THEN <<Finding("startup", calculate_improvement(vm_startup, docker_startup, FALSE))>>
        ELSE <<>>)
       \o (IF docker_memory < vm_memory
           THEN <<Finding("memory", calculate_improvement(vm_memory, docker_memory, FALSE))>>
           ELSE <<>>)
       \o (IF docker_disk < vm_disk
           THEN <<Finding("disk", calculate_improvement(vm_disk, docker_disk, FALSE))>>
           ELSE <<>>)
       \o (IF Get(stress.docker, "qps", 0) > Get(stress.vm, "qps", 0)
           THEN <<Finding("throughput", Zero)>>
           ELSE <<>>)

FixedFindings == <<Finding("isolation", Zero), Finding("flexibility", Zero)>>

MostImpressiveFirst(perf, stress) ==
    SortByMagnitude(DataFindings(perf, stress)) \o FixedFindings

\* lines 319-334: the list `findings`
Findings(perf, stress) == DataFindings(perf, stress) \o FixedFindings

InvertedRatio(vm_memory, docker_memory) ==
    IF docker_memory > 0 THEN Frac(docker_memory, vm_memory) ELSE Frac(1, 1)

\* line 371: vm_memory / docker_memory if docker_memory > 0 else 1
density_ratio(vm_memory, docker_memory) ==
    IF docker_memory > 0 THEN Frac(vm_memory, docker_memory) ELSE Frac(1, 1)

\* lines 357-384: the elasticity section
ElasticitySection(perf) ==
    LET vm_startup == Get(perf.vm, "startup_time", 0)
        docker_startup == Get(perf.docker, "startup_time", 0)
        vm_memory == Get(perf.vm, "memory_mb", 0)
        docker_memory == Get(perf.docker, "memory_mb", 0)
    IN << Heading("##", "elasticity"),
          Heading("###", "elastic_startup"),
          Line("elastic_startup", "VM", Frac(vm_startup, 1)),
          Line("elastic_startup", "Docker", Frac(docker_startup, 1)),
          Line("elastic_startup", "Advantage", Zero),
          Heading("###", "elastic_density"),
          Line("elastic_density", "VM", Frac(vm_memory, 1)),
          Line("elastic_density", "Docker", Frac(docker_memory, 1)) >>
       \o (IF docker_memory < vm_memory
           THEN <<Line("elastic_density", "DensityRatio",
                       density_ratio(vm_memory, docker_memory))>>
           ELSE <<>>)
       \o << Heading("###", "elastic_summary") >>

\* lines 162-395: the whole list `report`
generate_report(perf, stress) ==
    LET vm_startup == Get(perf.vm, "startup_time", 0)
        docker_startup == Get(perf.docker, "startup_time", 0)
        vm_memory == Get(perf.vm, "memory_mb", 0)
        docker_memory == Get(perf.docker, "memory_mb", 0)
        vm_disk == Get(perf.vm, "disk_bytes", 0)
        docker_disk == Get(perf.docker, "disk_bytes", 0)
    IN << Heading("#", "title"),
          Heading("##", "summary"),
          Heading("##", "environment"),
          Heading("###", "app_config"),
          Heading("##", "comparison") >>
       \o MetricSection("startup", vm_startup, docker_startup,
                        calculate_improvement(vm_startup, docker_startup, FALSE),
                        "DockerFaster", "VMFaster")
       \o MetricSection("memory", vm_memory, docker_memory,
                        calculate_improvement(vm_memory, docker_memory, FALSE),
                        "DockerSaves", "VMUsesMore")
       \o MetricSection("disk", vm_disk, docker_disk,
                        calculate_improvement(vm_disk, docker_disk, FALSE),
                        "DockerSaves", "VMOccupiesMore")
       \o ThroughputSection(stress)
       \o << Heading("##", "isolation"),
             Heading("###", "kernel"),
             Heading("###", "filesystem"),
             Heading("###", "network"),
             Heading("##", "findings") >>
       \o Findings(perf, stress)
       \o << Heading("##", "scenarios"),
             Heading("###", "choose_vm"),
             Heading("###", "choose_docker") >>
       \o ElasticitySection(perf)
       \o << Heading("##", "conclusion") >>

\* metric values the report runs are started with: every pair of startup
\* values up to MaxMetric and of memory values, and for disk, QPS and response time
\* one pair (vm, docker) of each kind: both zero, one zero, equal, docker
\* above, docker below
Metrics == 0..MaxMetric
\* a memory file may also hold a negative number: parse_number accepts it
MemoryValues == Metrics \cup {0 - 1}
Comparisons == { <<0, 0>>, <<0, 1>>, <<1, 0>>, <<1, 1>>, <<1, 2>>, <<2, 1>> }

VmProfile(present, s, m, d) ==
    IF present
    THEN [startup_time |-> s, memory_mb |-> m, disk_bytes |-> d, cpu_cores |-> 1,
          ip |-> <<"unknown">>]
    ELSE <<>>

DockerProfile(present, s, m, d) ==
    IF present
    THEN [startup_time |-> s, memory_mb |-> m, disk_bytes |-> d, cpu_percent |-> 0]
    ELSE <<>>

\* what load_stress_data leaves for one technology: nothing when the csv
\* file is missing or has no matching row, else the metrics of its rows
StressProfile(present, q, t) ==
    IF present THEN [qps |-> q, avg_response_time |-> t] ELSE <<>>

InitReport ==
    /\ pc = "loaded"
    /\ \E s \in Metrics \X Metrics, m \in MemoryValues \X MemoryValues,
          d \in Comparisons, q \in Comparisons, t \in Comparisons,
          vm_dir \in BOOLEAN, docker_dir \in BOOLEAN,
          vm_csv \in BOOLEAN, docker_csv \in BOOLEAN :
         \* a technology without data has no values
         /\ vm_dir \/ (s[1] = 0 /\ m[1] = 0 /\ d[1] = 0)
         /\ docker_dir \/ (s[2] = 0 /\ m[2] = 0 /\ d[2] = 0)
         /\ vm_csv \/ (q[1] = 0 /\ t[1] = 0)
         /\ docker_csv \/ (q[2] = 0 /\ t[2] = 0)
         /\ perf_data = [vm |-> VmProfile(vm_dir, s[1], m[1], d[1]),
                         docker |-> DockerProfile(docker_dir, s[2], m[2], d[2])]
         /\ stress_data = [vm |-> StressProfile(vm_csv, q[1], t[1]),
                           docker |-> StressProfile(docker_csv, q[2], t[2])]
    /\ report = <<>>
    /\ fs = <<>>
    /\ value = <<>> /\ default = 0 /\ parsed = NoCall
    /\ vm_value = 0 /\ docker_value = 0
    /\ improvement = [called |-> FALSE, higher_is_better |-> FALSE, val |-> Zero]

\* an exception raised while the list is assembled
Raises(fragments) == \E i \in 1..Len(fragments) : fragments[i].val = DivisionByZero

\* the run of generate_report: an exception leaves no report
GenerateReport ==
    /\ pc = "loaded"
    /\ LET fragments == generate_report(perf_data, stress_data)
       IN IF Raises(fragments)
          THEN report' = <<>> /\ pc' = "failed"
          ELSE report' = fragments /\ pc' = "reported"
    /\ UNCHANGED <<value, default, parsed, vm_value, docker_value, improvement,
                   fs, perf_data, stress_data>>

NextReport == GenerateReport

Spec == InitReport /\ [][NextReport]_vars


(***************************************************************************)
(* Claims about generate_report (Spec).                                    *)
(***************************************************************************)
\* the baseline and candidate values behind a table row
RowInputs(key) ==
    CASE key = "startup" -> [vm |-> Get(perf_data.vm, "startup_time", 0),
                             docker |-> Get(perf_data.docker, "startup_time", 0)]
      [] key = "memory" -> [vm |-> Get(perf_data.vm, "memory_mb", 0),
                            docker |-> Get(perf_data.docker, "memory_mb", 0)]
      [] key = "disk" -> [vm |-> Get(perf_data.vm, "disk_bytes", 0),
                          docker |-> Get(perf_data.docker, "disk_bytes", 0)]
      [] key = "qps" -> [vm |-> Get(stress_data.vm, "qps", 0),
                         docker |-> Get(stress_data.docker, "qps", 0)]
      [] key = "throughput" -> [vm |-> Get(stress_data.vm, "qps", 0),
                                docker |-> Get(stress_data.docker, "qps", 0)]
      [] key = "avg_response_time" ->
            [vm |-> Get(stress_data.vm, "avg_response_time", 0),
             docker |-> Get(stress_data.docker, "avg_response_time", 0)]

Degenerate(key) == RowInputs(key).vm = 0 \/ RowInputs(key).docker = 0

\* C3: no metric row (startup, memory, disk, QPS, average response time)
\* shows a non-zero percentage when the VM or the Docker value of that
\* metric is 0.
C3_NoSpuriousSwing ==
    pc = "reported" =>
        \A i \in 1..Len(report) :
            report[i].kind = "row" /\ Degenerate(report[i].key) => report[i].val = Zero

\* what the code does: the rows computed by calculate_improvement are
\* guarded, the response-time row is not
C3_GuardedRows ==
    pc = "reported" =>
        \A i \in 1..Len(report) :
            /\ report[i].kind = "row" /\ report[i].key # "avg_response_time"
            /\ Degenerate(report[i].key)
            => report[i].val = Zero

DataKeys == {"startup", "memory", "disk", "throughput"}

\* C8: a data-derived finding (startup, memory, disk, throughput) is
\* emitted only when the two raw values differ, and never when they are
\* equal or when either of them is 0.
C8_FindingsNonDegenerate ==
    pc = "reported" =>
        \A i \in 1..Len(report) :
            report[i].kind = "finding" /\ report[i].key \in DataKeys =>
                /\ RowInputs(report[i].key).vm # RowInputs(report[i].key).docker
                /\ ~Degenerate(report[i].key)

\* what the code does: a finding is emitted exactly when the Docker value
\* is on the better side of the VM value, zero or not
C8_FindingsAsCoded ==
    pc = "reported" =>
        \A k \in DataKeys :
            (\E i \in 1..Len(report) : report[i].kind = "finding" /\ report[i].key = k)
            <=> IF k = "throughput" THEN RowInputs(k).docker > RowInputs(k).vm
                ELSE RowInputs(k).docker < RowInputs(k).vm

IsFinding(f) == f.kind = "finding"
FindingKeys == LET fnd == SelectSeq(report, IsFinding) IN [i \in 1..Len(fnd) |-> fnd[i].key]

Priority(key) ==
    CASE key = "startup" -> 1 [] key = "memory" -> 2 [] key = "disk" -> 3
      [] key = "throughput" -> 4 [] OTHER -> 5

\* C9: the emitted findings keep the order startup, memory, disk,
\* throughput whatever the improvements are, and the list always ends with
\* the two constant findings, isolation then flexibility.
C9_FindingsOrder ==
    pc = "reported" =>
        LET k == FindingKeys
            n == Len(k)
        IN /\ n >= 2
           /\ k[n - 1] = "isolation" /\ k[n] = "flexibility"
           /\ \A i \in 1..(n - 2) : k[i] \in DataKeys
           /\ \A i \in 1..(n - 2) : \A j \in 1..(n - 2) :
                i < j => Priority(k[i]) < Priority(k[j])

\* all four data findings, startup (0%) before memory (50%)
C9_Witness ==
    /\ pc = "reported"
    /\ FindingKeys = <<"startup", "memory", "disk", "throughput", "isolation", "flexibility">>
    /\ \E i \in 1..Len(report) : \E j \in 1..Len(report) :
         /\ report[i].kind = "finding" /\ report[i].key = "startup"
         /\ report[j].kind = "finding" /\ report[j].key = "memory"
         /\ FracLess(report[i].val, report[j].val)

IsSection(f) == f.kind = "heading" /\ f.text = "##"
SectionKeys == LET h == SelectSeq(report, IsSection) IN [i \in 1..Len(h) |-> h[i].key]

IndexOf(key) ==
    CHOOSE i \in 1..Len(report) : report[i].kind = "heading" /\ report[i].key = key

IsSubsection(f) == f.kind = "heading" /\ f.text = "###"

\* the subsection headings between two top-level headings
SubsectionsBetween(from, to) ==
    LET a == IndexOf(from)
        b == IndexOf(to)
        h == SelectSeq(SubSeq(report, a + 1, b - 1), IsSubsection)
    IN [i \in 1..Len(h) |-> h[i].key]

Occurrences(key) ==
    Cardinality({i \in 1..Len(report) : report[i].kind = "heading" /\ report[i].key = key})

\* C10: the top-level sections appear once each in the order summary,
\* environment, metric comparison (startup, memory, disk), isolation,
\* findings, scenarios, elasticity, conclusion, and the throughput
\* subsection appears, after disk and before isolation, exactly when the
\* stress data of at least one technology is non-empty.
C10_SectionOrder ==
    pc = "reported" =>
        /\ SectionKeys = <<"summary", "environment", "comparison", "isolation",
                           "findings", "scenarios", "elasticity", "conclusion">>
        /\ SubsectionsBetween("comparison", "isolation") =
             IF NonEmpty(stress_data.vm) \/ NonEmpty(stress_data.docker)
             THEN <<"startup", "memory", "disk", "throughput">>
             ELSE <<"startup", "memory", "disk">>
        /\ Occurrences("throughput") <= 1

C10_Witness ==
    /\ pc = "reported"
    /\ ~NonEmpty(stress_data.vm) /\ NonEmpty(stress_data.docker)
    /\ SubsectionsBetween("comparison", "isolation") =
         <<"startup", "memory", "disk", "throughput">>


AllZero ==
    \A k \in {"startup", "memory", "disk", "qps", "avg_response_time"} :
        RowInputs(k).vm = 0 /\ RowInputs(k).docker = 0

\* C11: when every metric of both technologies is 0 the report still has
\* every fixed section, and the difference cell of every row (startup,
\* memory, disk and, when present, QPS and response time) is in the neutral
\* "insufficient data" form, naming no technology as better.
C11_AllZeroNeutral ==
    pc = "reported" /\ AllZero =>
        /\ SectionKeys = <<"summary", "environment", "comparison", "isolation",
                           "findings", "scenarios", "elasticity", "conclusion">>
        /\ \A i \in 1..Len(report) :
             report[i].kind = "row" => report[i].text = "Insufficient"

\* what the code does: the report is complete, but only the response-time
\* row has a neutral form; the other rows fall into their else branch and
\* name the VM ("VM faster 0.0%", "VM uses 0.0% more", "VM higher 0.0%")
C11_AllZeroAsCoded ==
    pc = "reported" /\ AllZero =>
        /\ SectionKeys = <<"summary", "environment", "comparison", "isolation",
                           "findings", "scenarios", "elasticity", "conclusion">>
        /\ \A i \in 1..Len(report) :
             report[i].kind = "row" =>
                /\ report[i].val = Zero
                /\ report[i].text =
                     CASE report[i].key = "startup" -> "VMFaster"
                       [] report[i].key = "memory" -> "VMUsesMore"
                       [] report[i].key = "disk" -> "VMOccupiesMore"
                       [] report[i].key = "qps" -> "VMHigher"
                       [] report[i].key = "avg_response_time" -> "Insufficient"


\* C12: calculate_improvement and the assembly of the report are total:
\* whatever the metric values (zeros, equal values, empty mappings), no
\* division by zero is reached and the run arrives at the end of the report.
C12_Total ==
    /\ pc # "failed"
    /\ pc = "reported" =>
         /\ report[Len(report)] = Heading("##", "conclusion")
         /\ \A i \in 1..Len(report) : report[i].val # DivisionByZero
         /\ \A k \in {"startup", "memory", "disk", "qps"} : \A b \in BOOLEAN :
              calculate_improvement(RowInputs(k).vm, RowInputs(k).docker, b)
                  # DivisionByZero

\* no VM directory and no VM stress file, Docker values present: every
\* baseline is 0 and every candidate is not
C12_Witness ==
    /\ pc = "reported"
    /\ ~NonEmpty(perf_data.vm) /\ ~NonEmpty(stress_data.vm)
    /\ \A k \in {"startup", "memory", "disk", "qps", "avg_response_time"} :
         RowInputs(k).vm = 0 /\ RowInputs(k).docker > 0
    /\ report[Len(report)] = Heading("##", "conclusion")


Sign(q) == IF Num(q) > 0 THEN 1 ELSE IF Num(q) < 0 THEN 0 - 1 ELSE 0

\* the phrasing a fragment of the report was given
TextOf(kind, key) ==
    report[CHOOSE i \in 1..Len(report) : report[i].kind = kind /\ report[i].key = key].text

\* the subsection of a lower-is-better metric for other values
OtherSection(key, vm, docker) ==
    MetricSection(key, vm, docker, calculate_improvement(vm, docker, FALSE),
                  IF key = "startup" THEN "DockerFaster" ELSE "DockerSaves",
                  CASE key = "startup" -> "VMFaster" [] key = "memory" -> "VMUsesMore"
                    [] key = "disk" -> "VMOccupiesMore")

\* the throughput subsection for other QPS values
OtherThroughput(vm, docker) ==
    ThroughputRows([vm |-> [qps |-> vm, avg_response_time |-> 0],
                    docker |-> [qps |-> docker, avg_response_time |-> 0]])

ThroughputPresent == NonEmpty(stress_data.vm) \/ NonEmpty(stress_data.docker)

\* C13: in the startup, memory, disk and QPS sections the phrasing of the
\* difference cell and of the analysis sentence depends only on the sign of
\* the metric's improvement percentage: any other values with the same sign
\* get the same two phrasings.
C13_PhrasingBySign ==
    pc = "reported" =>
        /\ \A key \in {"startup", "memory", "disk"} : \A v \in Metrics : \A d \in Metrics :
             Sign(calculate_improvement(v, d, FALSE))
               = Sign(calculate_improvement(RowInputs(key).vm, RowInputs(key).docker, FALSE))
             => /\ OtherSection(key, v, d)[2].text = TextOf("row", key)
                /\ OtherSection(key, v, d)[3].text = TextOf("analysis", key)
        /\ ThroughputPresent =>
             \A v \in Metrics : \A d \in Metrics :
               Sign(calculate_improvement(v, d, TRUE))
                 = Sign(calculate_improvement(RowInputs("qps").vm, RowInputs("qps").docker, TRUE))
               => /\ OtherThroughput(v, d)[2].text = TextOf("row", "qps")
                  /\ OtherThroughput(v, d)[4].text = TextOf("analysis", "throughput")

\* what the code does: the difference cell follows the sign of the
\* improvement (positive or not), the analysis sentence follows the raw
\* comparison of the two values, zero or not
C13_PhrasingAsCoded ==
    pc = "reported" =>
        /\ \A key \in {"startup", "memory", "disk"} :
             LET in == RowInputs(key)
                 imp == calculate_improvement(in.vm, in.docker, FALSE)
             IN /\ TextOf("row", key) \in {"DockerFaster", "DockerSaves"} <=> Sign(imp) = 1
                /\ TextOf("analysis", key) = "DockerShare" <=> in.docker < in.vm /\ in.vm > 0
        /\ ThroughputPresent =>
             LET in == RowInputs("qps")
                 imp == calculate_improvement(in.vm, in.docker, TRUE)
             IN /\ TextOf("row", "qps") = "DockerHigher" <=> Sign(imp) = 1
                /\ TextOf("analysis", "throughput") = "DockerBetter" <=> in.docker > in.vm


IsDensityLine(f) == f.kind = "line" /\ f.text = "DensityRatio"

\* C14: whenever a density-ratio line is emitted and the Docker memory
\* value is non-zero, the ratio shown is vm_memory / docker_memory.
C14_DensityRatioNonZero ==
    pc = "reported" =>
        \A i \in 1..Len(report) :
            IsDensityLine(report[i]) /\ RowInputs("memory").docker # 0 =>
                /\ Den(report[i].val) > 0
                /\ Num(report[i].val) * RowInputs("memory").docker
                     = RowInputs("memory").vm * Den(report[i].val)

\* C14, amended: whenever a density-ratio line is emitted and the Docker
\* memory value is greater than 0, the ratio shown is
\* vm_memory / docker_memory.
C14_DensityRatioPositive ==
    pc = "reported" =>
        \A i \in 1..Len(report) :
            IsDensityLine(report[i]) /\ RowInputs("memory").docker > 0 =>
                /\ Den(report[i].val) > 0
                /\ Num(report[i].val) * RowInputs("memory").docker
                     = RowInputs("memory").vm * Den(report[i].val)

C14_Witness ==
    /\ pc = "reported"
    /\ RowInputs("memory").vm = 2 /\ RowInputs("memory").docker = 1
    /\ \E i \in 1..Len(report) : IsDensityLine(report[i]) /\ report[i].val = <<2, 1>>

\* what the code does otherwise: the line is emitted exactly when the
\* Docker value is below the VM value, and shows 1 when the Docker value is
\* zero or negative
C14_DensityRatioAsCoded ==
    pc = "reported" =>
        /\ (\E i \in 1..Len(report) : IsDensityLine(report[i]))
             <=> RowInputs("memory").docker < RowInputs("memory").vm
        /\ \A i \in 1..Len(report) :
             IsDensityLine(report[i]) /\ RowInputs("memory").docker <= 0 =>
                 report[i].val = <<1, 1>>

=============================================================================
